---- MODULE Spec2Model ----
(***************************************************************************)
(* Model of universal_dashboard_basic.py: a Streamlit script that keeps    *)
(* four lists (tasks, notes, habits, mood_log) in a pickled dictionary.    *)
(*                                                                         *)
(* Every button press is one run of the script: line 37 loads the         *)
(* dictionary from the file, the handler of the pressed button changes it  *)
(* and saves it, and st.experimental_rerun() ends the run.  A run whose    *)
(* handler does not rerun goes on to the unconditional save of line 213.   *)
(*                                                                         *)
(* Text is a sequence of Unicode code points (97 is "a", 32 the space), so *)
(* that str.strip() is computed over the whitespace Python removes; a date *)
(* is a record [y, m, d] and date.isoformat() produces the text            *)
(* YYYY-MM-DD.  Indices held in "last" are 0-based as in the               *)
(* code; sequences are 1-based.  The mood labels stand for the labels of   *)
(* mood_options without their emoji prefix.                                *)
(***************************************************************************)
EXTENDS Naturals, Sequences, FiniteSets, TLC

VARIABLES
    file,    \* dashboard_data_basic.pkl: [state, content]
    data,    \* the dictionary "data" of the last run, as it was left
    signal,  \* what the last run reported: success, warning, KeyError, none
    last     \* the button pressed in the last run and its widget values

vars == <<file, data, signal, last>>

(* Bounds of the model. *)
MaxTasks  == 2
MaxNotes  == 2
MaxHabits == 2
MaxStreak == 2
MaxMood   == 3
MaxTotal  == 2

(* Widget inputs. *)
\* "", "\xa0\r", "\x0ca a\x85"
NameInputs == { <<>>, <<160, 13>>, <<12, 97, 32, 97, 133>> }
\* "", " ", "\ta\u2003", "b"
TextInputs == { <<>>, <<32>>, <<9, 97, 8195>>, <<98>> }
PriorityInputs == {"Low", "High"}
DateInputs == { [y |-> 2024, m |-> 1, d |-> 5], [y |-> 2025, m |-> 12, d |-> 31] }

Keys == {"tasks", "notes", "habits", "mood_log"}
priority_options == <<"Low", "Medium", "High">>
status_options == <<"Pending", "Completed">>
mood_options == <<"Sad", "Meh", "Good", "Great", "Awesome">>

Range(s) == { s[i] : i \in 1..Len(s) }

(* ---------------- text and dates ---------------- *)

\* the characters str.strip() removes: those for which str.isspace() holds
IsSpace(c) ==
    c \in { 9, 10, 11, 12, 13, 28, 29, 30, 31, 32, 133, 160, 5760,
            8192, 8193, 8194, 8195, 8196, 8197, 8198, 8199, 8200, 8201, 8202,
            8232, 8233, 8239, 8287, 12288 }

RECURSIVE lstrip(_)
lstrip(s) == IF s # <<>> /\ IsSpace(Head(s)) THEN lstrip(Tail(s)) ELSE s

RECURSIVE rstrip(_)
rstrip(s) ==
    IF s # <<>> /\ IsSpace(s[Len(s)]) THEN rstrip(SubSeq(s, 1, Len(s) - 1)) ELSE s

strip(s) == rstrip(lstrip(s))

\* the code point of the decimal digit n
Digit(n) == 48 + n

isoformat(dt) ==
    << Digit(dt.y \div 1000), Digit((dt.y \div 100) % 10),
       Digit((dt.y \div 10) % 10), Digit(dt.y % 10), 45,
       Digit(dt.m \div 10), Digit(dt.m % 10), 45,
       Digit(dt.d \div 10), Digit(dt.d % 10) >>

\* date.fromisoformat of a text YYYY-MM-DD
fromisoformat(s) ==
    [y |-> 1000 * (s[1] - 48) + 100 * (s[2] - 48) + 10 * (s[3] - 48) + (s[4] - 48),
     m |-> 10 * (s[6] - 48) + (s[7] - 48),
     d |-> 10 * (s[9] - 48) + (s[10] - 48)]

(* ---------------- the dictionary ---------------- *)

EmptyStore == [k \in Keys |-> <<>>]

\* data.get(k, []) and the truth test of data.get(k)
Get(d, k) == IF k \in DOMAIN d THEN d[k] ELSE <<>>

\* data.setdefault(k, [])
setdefault(d, k) == IF k \in DOMAIN d THEN d ELSE d @@ (k :> <<>>)

\* data.setdefault(k, []).append(e)
AppendTo(d, k, e) == [setdefault(d, k) EXCEPT ![k] = Append(@, e)]

\* variant: list.pop() without the index
pop_Last(s, i) == SubSeq(s, 1, Len(s) - 1)

\* list.pop(i) with a 0-based index i
pop(s, i) == SubSeq(s, 1, i) \o SubSeq(s, i + 2, Len(s))

Total(d) ==
    Len(Get(d, "tasks")) + Len(Get(d, "notes"))
        + Len(Get(d, "habits")) + Len(Get(d, "mood_log"))

(* ---------------- load and save ---------------- *)

Saved(d) == [state |-> "ok", content |-> d]

\* variant: load_data without the except branch of lines 20-22
load_data_Trusting(f) == IF f.state # "absent" THEN f.content ELSE EmptyStore

\* f.state: "absent" (no file), "ok" (a pickle of f.content), "corrupt"
\* (f.content can no longer be unpickled)
load_data(f) ==
    IF f.state # "absent"
    THEN IF f.state = "ok" THEN f.content ELSE EmptyStore
    ELSE EmptyStore

(* ---------------- derived views ---------------- *)

RECURSIVE CountCompleted(_)
CountCompleted(ts) ==
    IF ts = <<>> THEN 0
    ELSE (IF Head(ts).status = "Completed" THEN 1 ELSE 0) + CountCompleted(Tail(ts))

Snapshot(d) ==
    LET total_tasks == Len(Get(d, "tasks"))
        completed == CountCompleted(Get(d, "tasks"))
    IN [total_tasks |-> total_tasks,
        completed |-> completed,
        pending |-> total_tasks - completed,
        total_notes |-> Len(Get(d, "notes")),
        total_habits |-> Len(Get(d, "habits"))]

\* variant: the score taken as the 0-based index
mapping_ZeroBased(label) ==
    (CHOOSE i \in 1..Len(mood_options) : mood_options[i] = label) - 1

\* mapping = {mood_options[i]: i+1 for i in range(len(mood_options))}
mapping(label) == CHOOSE i \in 1..Len(mood_options) : mood_options[i] = label

moodSeries(d) ==
    LET log == Get(d, "mood_log")
    IN [i \in 1..Len(log) |->
            [date |-> log[i].date, mood |-> log[i].mood, score |-> mapping(log[i].mood)]]

\* the notes as listed, newest first
notesDisplay(d) ==
    LET ns == Get(d, "notes")
    IN [j \in 1..Len(ns) |-> ns[Len(ns) + 1 - j]]

(* ---------------- runs ---------------- *)

\* a run whose handler saved and asked for a rerun, or that reached the
\* final save of the script
Done(d1, sig, act) ==
    /\ data' = d1
    /\ file' = Saved(d1)
    /\ signal' = sig
    /\ last' = act

\* a run that stopped on an uncaught exception: nothing is saved
Crashed(d0, exc, act) ==
    /\ data' = d0
    /\ file' = file
    /\ signal' = exc
    /\ last' = act

\* the status shown in the title of the expander of task i
shown(d, i) == d["tasks"][i + 1].status

AddTask(task_name, priority, due_date) ==
    LET d0 == load_data(file)
        act == [op |-> "addTask", name |-> task_name, priority |-> priority,
                due |-> due_date]
    IN IF strip(task_name) = <<>>
       THEN Done(d0, "warning", act)
       ELSE /\ Len(Get(d0, "tasks")) < MaxTasks
            /\ IF "tasks" \in DOMAIN d0
               THEN Done([d0 EXCEPT !["tasks"] =
                             Append(@, [name |-> strip(task_name),
                                        priority |-> priority,
                                        due |-> isoformat(due_date),
                                        status |-> "Pending"])],
                         "success", act)
               ELSE Crashed(d0, "KeyError", act)

\* variant: the button flips the status
MarkDone_Toggle(i) ==
    LET d0 == load_data(file)
    IN /\ i < Len(Get(d0, "tasks"))
       /\ Done([d0 EXCEPT !["tasks"][i + 1].status =
                    IF @ = "Completed" THEN "Pending" ELSE "Completed"], "none",
               [op |-> "markTaskDone", index |-> i, shown |-> shown(d0, i)])

MarkDone(i) ==
    LET d0 == load_data(file)
    IN /\ i < Len(Get(d0, "tasks"))
       /\ Done([d0 EXCEPT !["tasks"][i + 1].status = "Completed"], "none",
               [op |-> "markTaskDone", index |-> i, shown |-> shown(d0, i)])

\* the buttons of the expander of task i, as the run sees them pressed
EditKey(i) == <<"Edit", i>>
SaveKey(i) == <<"save", i>>

\* lines 90-105: the form, its "Save changes" button and the update are all
\* inside the branch of the Edit button, so the update needs both buttons
\* reported pressed in one run; a run in which only one of them is pressed
\* changes nothing and ends with the save of line 213
EditTask(pressed, i, new_name, new_priority, new_due, new_status) ==
    LET d0 == load_data(file)
        act == [op |-> "updateTask", index |-> i, shown |-> shown(d0, i),
                name |-> new_name, status |-> new_status]
    IN /\ i < Len(Get(d0, "tasks"))
       /\ IF EditKey(i) \in pressed
          THEN IF SaveKey(i) \in pressed
               THEN Done([d0 EXCEPT !["tasks"][i + 1] =
                             [name |-> strip(new_name), priority |-> new_priority,
                              due |-> isoformat(new_due), status |-> new_status]],
                         "success", act)
               ELSE Done(d0, "none",
                         [op |-> "editTask", index |-> i, shown |-> shown(d0, i)])
          ELSE Done(d0, "none", act)

DeleteTask(i) ==
    LET d0 == load_data(file)
    IN /\ i < Len(Get(d0, "tasks"))
       /\ Done([d0 EXCEPT !["tasks"] = pop(@, i)], "none",
               [op |-> "deleteTask", index |-> i, shown |-> shown(d0, i)])

\* variant: the test of line 121 with "and" in place of "or"
SaveNote_And(note_title, note_body, today) ==
    LET d0 == load_data(file)
        act == [op |-> "addNote", title |-> note_title, content |-> note_body,
                today |-> today]
    IN IF strip(note_title) = <<>> /\ strip(note_body) = <<>>
       THEN Done(d0, "warning", act)
       ELSE /\ Len(Get(d0, "notes")) < MaxNotes
            /\ Done(AppendTo(d0, "notes",
                             [title |-> strip(note_title),
                              content |-> strip(note_body),
                              date |-> isoformat(today)]),
                    "success", act)

SaveNote(note_title, note_body, today) ==
    LET d0 == load_data(file)
        act == [op |-> "addNote", title |-> note_title, content |-> note_body,
                today |-> today]
    IN IF strip(note_title) = <<>> \/ strip(note_body) = <<>>
       THEN Done(d0, "warning", act)
       ELSE /\ Len(Get(d0, "notes")) < MaxNotes
            /\ Done(AppendTo(d0, "notes",
                             [title |-> strip(note_title),
                              content |-> strip(note_body),
                              date |-> isoformat(today)]),
                    "success", act)

\* variant: the display position used as the storage index
noteIdx_Display(d, j) == j

\* the storage index of the note listed at position j (both 0-based)
noteIdx(d, j) == Len(Get(d, "notes")) - 1 - j

\* j is the position in the displayed (reversed) list
DeleteNote(j) ==
    LET d0 == load_data(file)
        idx == noteIdx(d0, j)
    IN /\ j < Len(Get(d0, "notes"))
       /\ Done([d0 EXCEPT !["notes"] = pop(@, idx)], "none",
               [op |-> "deleteNote", display |-> j])

AddHabit(habit_name) ==
    LET d0 == load_data(file)
        act == [op |-> "addHabit", name |-> habit_name]
    IN IF strip(habit_name) # <<>>
       THEN /\ Len(Get(d0, "habits")) < MaxHabits
            /\ Done(AppendTo(d0, "habits",
                             [name |-> strip(habit_name), streak |-> 0]),
                    "success", act)
       ELSE Done(d0, "warning", act)

MarkToday(h_idx) ==
    LET d0 == load_data(file)
    IN /\ h_idx < Len(Get(d0, "habits"))
       /\ d0["habits"][h_idx + 1].streak < MaxStreak
       /\ Done([d0 EXCEPT !["habits"][h_idx + 1].streak = @ + 1], "none",
               [op |-> "markHabitToday", index |-> h_idx])

LogMood(mood, today) ==
    LET d0 == load_data(file)
    IN /\ Len(Get(d0, "mood_log")) < MaxMood
       /\ Done(AppendTo(d0, "mood_log",
                        [date |-> isoformat(today), mood |-> mood]),
               "success", [op |-> "logMood", mood |-> mood, today |-> today])

ResetAll == Done(EmptyStore, "success", [op |-> "resetAll"])

\* a run with no button pressed: listing, snapshot and the final save
Render == Done(load_data(file), "none", [op |-> "render"])

\* the file is removed or damaged between sessions and the script runs from
\* the start with no button pressed: line 37 loads, line 213 saves.  A
\* damaged file still holds the remains of what was saved.
Restart(st) ==
    LET f == [state |-> st,
              content |-> IF st = "corrupt" THEN load_data(file) ELSE EmptyStore]
    IN Done(load_data(f), "none", [op |-> "start", found |-> f.state])

(* ---------------- specifications ---------------- *)

\* a dictionary holding one entity of each kind
Populated ==
    [tasks |-> << [name |-> <<97, 32, 97>>, priority |-> "High",
                   due |-> isoformat([y |-> 2024, m |-> 1, d |-> 5]),
                   status |-> "Completed"] >>,
     notes |-> << [title |-> <<97>>, content |-> <<98>>,
                   date |-> isoformat([y |-> 2024, m |-> 1, d |-> 5])] >>,
     habits |-> << [name |-> <<97>>, streak |-> 1] >>,
     mood_log |-> << [date |-> isoformat([y |-> 2024, m |-> 1, d |-> 5]),
                      mood |-> "Great"] >>]

NoFile ==
    { [state |-> "absent", content |-> EmptyStore],
      [state |-> "corrupt", content |-> Populated] }

\* files of dictionaries in which the keys of K may be missing
Lacking(K) == { Saved([k \in Keys \ M |-> <<>>]) : M \in SUBSET K }

InitFrom(files) ==
    /\ file \in files
    /\ data = load_data(file)
    /\ signal = "none"
    /\ last = [op |-> "start", found |-> file.state]

\* one button is pressed per run.  "Edit" of task i: the form shows the
\* fields of the task (lines 92-95)
FormOpened(i) ==
    /\ i < Len(Get(load_data(file), "tasks"))
    /\ LET t == load_data(file)["tasks"][i + 1]
       IN EditTask({EditKey(i)}, i, t.name, t.priority, fromisoformat(t.due),
                   t.status)

\* "Save changes" of the form that the last run opened for task i
FormSaved(i, new_name, new_priority, new_due, new_status) ==
    /\ last.op = "editTask"
    /\ last.index = i
    /\ EditTask({SaveKey(i)}, i, new_name, new_priority, new_due, new_status)

TaskStep ==
    \/ \E n \in NameInputs, p \in PriorityInputs, du \in DateInputs :
           AddTask(n, p, du)
    \/ \E i \in 0..(MaxTasks - 1) : MarkDone(i)
    \/ \E i \in 0..(MaxTasks - 1) : FormOpened(i)
    \/ \E i \in 0..(MaxTasks - 1), n \in NameInputs, p \in PriorityInputs,
          du \in DateInputs, s \in Range(status_options) : FormSaved(i, n, p, du, s)
    \/ \E i \in 0..(MaxTasks - 1) : DeleteTask(i)

NoteStep ==
    \/ \E t \in TextInputs, b \in TextInputs, today \in DateInputs :
           SaveNote(t, b, today)
    \/ \E j \in 0..(MaxNotes - 1) : DeleteNote(j)

HabitStep ==
    \/ \E n \in NameInputs : AddHabit(n)
    \/ \E h \in 0..(MaxHabits - 1) : MarkToday(h)

MoodStep == \E m \in Range(mood_options), today \in DateInputs : LogMood(m, today)

OtherStep ==
    \/ ResetAll
    \/ Render
    \/ \E st \in {"absent", "corrupt"} : Restart(st)

\* the task operations
InitTasks == InitFrom(NoFile \cup Lacking({"tasks"}) \cup {Saved(Populated)})
NextTasks == TaskStep \/ OtherStep
SpecTasks == InitTasks /\ [][NextTasks]_vars

\* the note operations
InitNotes == InitFrom(NoFile \cup Lacking({"notes"}) \cup {Saved(Populated)})
NextNotes == NoteStep \/ OtherStep
SpecNotes == InitNotes /\ [][NextNotes]_vars

\* the mood log
InitMood == InitFrom(NoFile \cup Lacking({"mood_log"}) \cup {Saved(Populated)})
NextMood == MoodStep \/ OtherStep
SpecMood == InitMood /\ [][NextMood]_vars

\* all operations, on dictionaries of at most MaxTotal entities
Room == Total(load_data(file)) < MaxTotal

Init == InitFrom(NoFile \cup Lacking(Keys))
Next ==
    \/ Room /\ TaskStep
    \/ Room /\ NoteStep
    \/ Room /\ HabitStep
    \/ Room /\ MoodStep
    \/ OtherStep
Spec == Init /\ [][Next]_vars

(* ---------------- properties ---------------- *)

\* the list under key k, a missing key read as the empty list
Tasks(d) == Get(d, "tasks")
Notes(d) == Get(d, "notes")

SameLists(d, e) == \A k \in Keys : Get(d, k) = Get(e, k)
SameOtherLists(d, e, key) == \A k \in Keys \ {key} : Get(d, k) = Get(e, k)

\* text that is empty once surrounding whitespace is removed
Whitespace ==
    (9..13) \cup (28..32) \cup {133, 160, 5760} \cup (8192..8202)
        \cup {8232, 8233, 8239, 8287, 12288}

Blank(s) == \A i \in 1..Len(s) : s[i] \in Whitespace

\* text without its surrounding whitespace
Trimmed(s) ==
    IF Blank(s) THEN <<>>
    ELSE LET solid == { i \in 1..Len(s) : s[i] \notin Whitespace }
             lo == CHOOSE i \in solid : \A j \in solid : i <= j
             hi == CHOOSE i \in solid : \A j \in solid : j <= i
         IN SubSeq(s, lo, hi)

\* the sequence s without its k-th element (1-based)
RemoveAt(s, k) == [x \in 1..(Len(s) - 1) |-> IF x < k THEN s[x] ELSE s[x + 1]]

\* an add whose required text is empty after trimming
EmptyAdd(a) ==
    \/ a.op = "addTask" /\ Blank(a.name)
    \/ a.op = "addNote" /\ (Blank(a.title) \/ Blank(a.content))
    \/ a.op = "addHabit" /\ Blank(a.name)

\* the key and the entity of an add with valid input
ValidAdd(a) ==
    \/ a.op = "addTask" /\ ~Blank(a.name)
    \/ a.op = "addNote" /\ ~Blank(a.title) /\ ~Blank(a.content)
    \/ a.op = "addHabit" /\ ~Blank(a.name)
    \/ a.op = "logMood"

AddKey(a) ==
    CASE a.op = "addTask" -> "tasks"
      [] a.op = "addNote" -> "notes"
      [] a.op = "addHabit" -> "habits"
      [] a.op = "logMood" -> "mood_log"

NewTask(a) ==
    [name |-> Trimmed(a.name), priority |-> a.priority,
     due |-> isoformat(a.due), status |-> "Pending"]

AddEntity(a) ==
    CASE a.op = "addTask" -> NewTask(a)
      [] a.op = "addNote" ->
            [title |-> Trimmed(a.title), content |-> Trimmed(a.content),
             date |-> isoformat(a.today)]
      [] a.op = "addHabit" -> [name |-> Trimmed(a.name), streak |-> 0]
      [] a.op = "logMood" -> [date |-> isoformat(a.today), mood |-> a.mood]

\* C1: an add whose required text is empty after trimming signals a warning
\* and leaves all four lists exactly as they were.
C1_EmptyAddIsNoOp ==
    [][EmptyAdd(last') => (signal' = "warning" /\ SameLists(data', data))]_vars

\* a note with a title but only whitespace as content was refused while the
\* dictionary held entities
C1_Witness ==
    /\ last.op = "addNote"
    /\ ~Blank(last.title)
    /\ Blank(last.content)
    /\ signal = "warning"
    /\ Total(data) > 0

\* C2: every task's name is a non-empty string, and updateTask with a name
\* that is empty after trimming is refused with a validation error and
\* leaves the tasks unchanged, as addTask does.
C2_UpdateValidatesName ==
    [][/\ \A i \in 1..Len(Tasks(data')) : Tasks(data')[i].name # <<>>
       /\ (last'.op = "updateTask" /\ Blank(last'.name)) =>
             (signal' = "warning" /\ Tasks(data') = Tasks(data))]_vars

\* C3: on a dictionary that lacks a list key no operation ends in an error,
\* and a valid add on the missing list leaves it holding exactly the new
\* entity.
C3_MissingKeyIsEmptyList ==
    [][/\ signal' # "KeyError"
       /\ (ValidAdd(last') /\ AddKey(last') \notin DOMAIN data)
            => /\ AddKey(last') \in DOMAIN data'
               /\ data'[AddKey(last')] = <<AddEntity(last')>>]_vars

\* C4: deleteTask(i) removes exactly the task at index i: tasks before i keep
\* their index, tasks after i move down by one unchanged, the length drops
\* by one, and notes, habits and mood_log are unchanged.
C4_DeleteTaskShifts ==
    [][last'.op = "deleteTask" =>
        LET i == last'.index + 1
            old == Tasks(data)
            new == Tasks(data')
        IN /\ i \in 1..Len(old)
           /\ Len(new) = Len(old) - 1
           /\ \A j \in 1..(i - 1) : new[j] = old[j]
           /\ \A j \in (i + 1)..Len(old) : new[j - 1] = old[j]
           /\ SameOtherLists(data', data, "tasks")]_vars

\* the first of several tasks was deleted while the other lists held entities
C4_Witness ==
    /\ last.op = "deleteTask"
    /\ last.index = 0
    /\ Len(Tasks(data)) >= 1
    /\ Len(Notes(data)) >= 1

\* C5: notes are listed newest first, and deleting the note listed at
\* position j removes exactly the note at storage index n-1-j and keeps the
\* other notes in order; deleting position 0 removes the newest note.
C5_DeleteNoteMapsDisplay ==
    [][last'.op = "deleteNote" =>
        LET j == last'.display
            old == Notes(data)
            new == Notes(data')
            n == Len(old)
        IN /\ j \in 0..(n - 1)
           /\ \A q \in 1..n : notesDisplay(data)[q] = old[n + 1 - q]
           /\ notesDisplay(data') = RemoveAt(notesDisplay(data), j + 1)
           /\ new = RemoveAt(old, n - j)
           /\ (j = 0 => new = SubSeq(old, 1, n - 1))
           /\ SameOtherLists(data', data, "notes")]_vars

\* the newest of several notes was deleted
C5_Witness ==
    /\ last.op = "deleteNote"
    /\ last.display = 0
    /\ Len(Notes(data)) >= 1

\* C6: addTask with a valid name appends exactly one Pending task with the
\* trimmed name, the priority and the due date; the earlier tasks keep index
\* and fields; total and pending grow by one and completed stays.
C6_AddTaskAppends ==
    [][(last'.op = "addTask" /\ ~Blank(last'.name)) =>
        /\ Tasks(data') = Append(Tasks(data), NewTask(last'))
        /\ Snapshot(data').total_tasks = Snapshot(data).total_tasks + 1
        /\ Snapshot(data').completed = Snapshot(data).completed
        /\ Snapshot(data').pending = Snapshot(data).pending + 1]_vars

\* C7: markTaskDone(i) sets the status of task i to Completed and changes
\* nothing else; on a task that is already Completed it leaves the whole
\* dictionary and the snapshot as they were.
C7_MarkDoneIdempotent ==
    [][last'.op = "markTaskDone" =>
        LET i == last'.index + 1
            old == Tasks(data)
            new == Tasks(data')
        IN /\ i \in 1..Len(old)
           /\ Len(new) = Len(old)
           /\ \A j \in 1..Len(old) : j # i => new[j] = old[j]
           /\ new[i].status = "Completed"
           /\ new[i].name = old[i].name
           /\ new[i].priority = old[i].priority
           /\ new[i].due = old[i].due
           /\ SameOtherLists(data', data, "tasks")
           /\ old[i].status = "Completed" =>
                 (SameLists(data', data) /\ Snapshot(data') = Snapshot(data))]_vars

\* markTaskDone was pressed on a task that was already Completed
C7_Witness ==
    /\ last.op = "markTaskDone"
    /\ last.shown = "Completed"
    /\ Tasks(data)[last.index + 1].status = "Completed"

\* C8: when the script starts on a file that does not exist or cannot be
\* unpickled, the loaded dictionary is exactly the four empty lists.
C8_LoadFallsBackToEmpty ==
    (last.op = "start" /\ last.found \in {"absent", "corrupt"}) =>
        data = [tasks |-> <<>>, notes |-> <<>>, habits |-> <<>>, mood_log |-> <<>>]

\* a whole run started on a damaged file and saved what it had loaded
C8_Witness ==
    /\ last.op = "start"
    /\ last.found = "corrupt"
    /\ file.state = "ok"
    /\ data = file.content

\* the 1-based rank of a mood label in Sad < Meh < Good < Great < Awesome
Rank(label) ==
    CASE label = "Sad" -> 1
      [] label = "Meh" -> 2
      [] label = "Good" -> 3
      [] label = "Great" -> 4
      [] label = "Awesome" -> 5

\* C9: the mood series has one point per logged mood, in log order, and each
\* logMood adds one point at the end whose score is the rank of its label.
C9_MoodSeriesInLogOrder ==
    [][/\ Len(moodSeries(data')) = Len(Get(data', "mood_log"))
       /\ last'.op = "logMood" =>
            moodSeries(data') =
                Append(moodSeries(data),
                       [date |-> isoformat(last'.today), mood |-> last'.mood,
                        score |-> Rank(last'.mood)])]_vars

\* Sad, Awesome, Good were logged in this order, the first two on one day
C9_Witness ==
    /\ last.op = "logMood"
    /\ Len(moodSeries(data)) = 3
    /\ [i \in 1..3 |-> moodSeries(data)[i].score] = <<1, 5, 3>>
    /\ moodSeries(data)[1].date = moodSeries(data)[2].date
    /\ moodSeries(data)[2].date # moodSeries(data)[3].date

\* where the task at index i (1-based) is after the step, 0 when it is gone
Image(i, a, newLen) ==
    IF a.op = "deleteTask"
    THEN IF i - 1 < a.index THEN i ELSE IF i - 1 = a.index THEN 0 ELSE i - 1
    ELSE IF i <= newLen THEN i ELSE 0

\* C10: the status of a task, followed through deletes, changes only from
\* Pending to Completed by markTaskDone on that task or by updateTask on that
\* task; Completed becomes Pending only by updateTask, and updateTask does
\* set the status it is given, so it can take a Completed task to Pending.
C10_StatusTransitions ==
    [][/\ \A i \in 1..Len(Tasks(data)) :
            LET img == Image(i, last', Len(Tasks(data')))
                was == Tasks(data)[i].status
            IN img # 0 /\ Tasks(data')[img].status # was =>
                  \/ /\ last'.op = "markTaskDone"
                     /\ last'.index = i - 1
                     /\ was = "Pending"
                     /\ Tasks(data')[img].status = "Completed"
                  \/ /\ last'.op = "updateTask"
                     /\ last'.index = i - 1
       /\ (last'.op = "updateTask" /\ ~Blank(last'.name)) =>
             Tasks(data')[last'.index + 1].status = last'.status]_vars

====
